---- MODULE Spec2Model ----
(***************************************************************************)
(* Model of quizcards.py: the grid fitter maximize_cards_on_page, the deck *)
(* builder make_cards_platypus / make_cards_file and the sheet imposer     *)
(* layout.                                                                 *)
(*                                                                         *)
(* Lengths are integers in units of 0.01 mm, so that 7.21*mm is 721 and    *)
(* 9.1*cm is 9100.  Coordinates on the page are kept DOUBLED (2*x, 2*y)    *)
(* because the code halves the page size and the grid extent               *)
(* (xc - i1*cw/2.) and the doubled value is the exact integer.             *)
(***************************************************************************)
EXTENDS Integers, Sequences, FiniteSets, TLC

VARIABLES pc, cardsFrom, cardSize, pageSize, margins, autoRotate, frame,
          nItems, i, questions, answers, obj, cards,
          i1, i2, cardGroups, k, j, g, coords, sink, err,
          plain, rotated

vars == <<pc, cardsFrom, cardSize, pageSize, margins, autoRotate, frame,
          nItems, i, questions, answers, obj, cards,
          i1, i2, cardGroups, k, j, g, coords, sink, err,
          plain, rotated>>

(* ------------------------------ bounds --------------------------------- *)

\* largest number of quiz items of a document
MaxItems == 3
\* largest page / card extent drawn for the grid fitter on its own
MaxDim == 3
\* largest single margin drawn for the grid fitter on its own
MaxMargin == 1

(* --------------------------- units and sizes --------------------------- *)

mm == 100
cm == 1000

A3 == <<297 * mm, 420 * mm>>
A4 == <<210 * mm, 297 * mm>>
A5 == <<148 * mm, 210 * mm>>
A6 == <<105 * mm, 148 * mm>>

\* reportlab.lib.pagesizes.landscape: the longer side becomes the width
landscape(size) ==
    IF size[1] < size[2] THEN <<size[2], size[1]>> ELSE size

\* the attribute is not set on the instance (lookup falls back to the class)
NoAttr == -1

\* class attributes Card.lm, Card.rm
CardLm == 3 * mm
CardRm == 3 * mm

\* kwDict["lm"], kwDict["rm"] of make_cards_platypus
KwLm == 4 * mm
KwRm == 4 * mm

(* ------------------------------- utils --------------------------------- *)

\* reverse_seq on a tuple / list
reverse_seq(seq) == [n \in 1..Len(seq) |-> seq[Len(seq) + 1 - n]]

\* range(n): 0, 1, ..., n-1 (empty for n <= 0)
range(n) == [m \in 1..n |-> m - 1]

\* int(num / den) for den > 0: Python's int() truncates toward zero
int(num, den) ==
    IF num >= 0 THEN num \div den ELSE -((-num) \div den)

\* cards[start:stop:2] for 0 <= start: the elements at the 0-based indexes
\* start, start+2, ... below min(stop, len(cards))
Slice2(s, start, stop) ==
    LET hi == IF stop < Len(s) THEN stop ELSE Len(s)
        cnt == IF hi > start THEN (hi - start + 1) \div 2 ELSE 0
    IN  [n \in 1..cnt |-> s[start + 2 * (n - 1) + 1]]

\* [f(y, x) for y in ys for x in xs] with f the doubled coordinate pair
Comprehension(ys, xs, x0, y0, cw, ch) ==
    [n \in 1..(Len(ys) * Len(xs)) |->
        <<x0 + 2 * xs[((n - 1) % Len(xs)) + 1] * cw,
          y0 + 2 * ys[((n - 1) \div Len(xs)) + 1] * ch>>]

(* ---------------------------- grid fitter ------------------------------ *)

\* pageSize[0] - margins.lm - margins.rm
UsableWidth(page, mg) == page[1] - mg.lm - mg.rm

\* faulty variant of UsableHeight: the horizontal margins taken instead
UsableHeightSlip(page, mg) == page[2] - mg.lm - mg.rm

\* pageSize[1] - margins.bm - margins.tm
UsableHeight(page, mg) == page[2] - mg.bm - mg.tm

\* faulty variant of TurnPage: the comparison of the yields turned around
TurnPageSlip(rot, m1, n1) == rot /\ m1 < n1

\* "if autoRotate and m1 > n1"
TurnPage(rot, m1, n1) == rot /\ m1 > n1

\* "if autoRotate and pageSize[0] <= pageSize[1]: if cardSize[0] > cardSize[1]"
SwapAxes(rot, page, card) == rot /\ page[1] <= page[2] /\ card[1] > card[2]

maximize_cards_on_page(card, page, mg, rot) ==
    LET ia == int(UsableWidth(page, mg), card[1])
        ib == int(UsableHeight(page, mg), card[2])
        n1 == ia * ib
        j1 == int(UsableWidth(page, mg), card[2])
        j2 == int(UsableHeight(page, mg), card[1])
        m1 == j1 * j2
        turn == TurnPage(rot, m1, n1)
        \* i1, i2 = j1, j2 ; pageSize reversed ; i1, i2 = i2, i1
        page1 == IF turn THEN reverse_seq(page) ELSE page
        ic == IF turn THEN j2 ELSE ia
        id == IF turn THEN j1 ELSE ib
        swap == SwapAxes(rot, page1, card)
    IN  [called |-> TRUE,
         pageSize |-> page1,
         numCardsX |-> IF swap THEN id ELSE ic,
         numCardsY |-> IF swap THEN ic ELSE id]

NoResult == [called |-> FALSE, pageSize |-> <<0, 0>>,
             numCardsX |-> 0, numCardsY |-> 0]

\* nppm of layout()
nppm == [lm |-> 721, rm |-> 721, tm |-> 1510, bm |-> 1510]

(* ----------------------------- card faces ------------------------------ *)

\* content blocks: sequences of flowables, each [kind, n]
Cover == <<[kind |-> "cover", n |-> 0]>>

\* [Paragraph("Question:", fine)] + [q] for the item with 0-based index n
QuestionBlock(n) ==
    <<[kind |-> "QuestionLabel", n |-> 0], [kind |-> "q", n |-> n]>>

\* faulty variant of AnswerBlock: the label numbered from 0
AnswerBlockSlip(n) ==
    <<[kind |-> "AnswerLabel", n |-> n], [kind |-> "a", n |-> n]>>

\* [Paragraph("Answer %d:" % (i + 1), fine)] + [a]
AnswerBlock(n) ==
    <<[kind |-> "AnswerLabel", n |-> n + 1], [kind |-> "a", n |-> n]>>

\* QuizCard(**kwDict) with its text set: the instance attributes
QuizCard(text, cw, ch) ==
    [text |-> text, lm |-> KwLm, rm |-> KwRm, width |-> cw, height |-> ch]

\* attribute lookup self.lm / self.rm: instance first, then class Card
GetLm(o) == IF o.lm = NoAttr THEN CardLm ELSE o.lm
GetRm(o) == IF o.rm = NoAttr THEN CardRm ELSE o.rm

(* ------------------- the grid fitter called on its own ----------------- *)

Dims == 1..MaxDim
Margins == [lm : 0..MaxMargin, rm : 0..MaxMargin,
            tm : 0..MaxMargin, bm : 0..MaxMargin]

InitFit ==
    /\ pc = "fit"
    /\ cardSize \in Dims \X Dims
    /\ pageSize \in Dims \X Dims
    /\ margins \in Margins
    /\ plain = NoResult
    /\ rotated = NoResult
    /\ cardsFrom = "none"
    /\ autoRotate = FALSE
    /\ frame = FALSE
    /\ nItems = 0
    /\ i = 0
    /\ questions = <<>>
    /\ answers = <<>>
    /\ obj = <<>>
    /\ cards = <<>>
    /\ i1 = 0
    /\ i2 = 0
    /\ cardGroups = <<>>
    /\ k = 0
    /\ j = 0
    /\ g = 0
    /\ coords = <<>>
    /\ sink = <<>>
    /\ err = ""

\* maximize_cards_on_page(cardSize, pageSize, margins, autoRotate=False)
CallPlain ==
    /\ pc = "fit"
    /\ ~plain.called
    /\ plain' = maximize_cards_on_page(cardSize, pageSize, margins, FALSE)
    /\ UNCHANGED <<pc, cardsFrom, cardSize, pageSize, margins, autoRotate,
                   frame, nItems, i, questions, answers, obj, cards,
                   i1, i2, cardGroups, k, j, g, coords, sink, err, rotated>>

\* maximize_cards_on_page(cardSize, pageSize, margins, autoRotate=True)
CallRotate ==
    /\ pc = "fit"
    /\ ~rotated.called
    /\ rotated' = maximize_cards_on_page(cardSize, pageSize, margins, TRUE)
    /\ UNCHANGED <<pc, cardsFrom, cardSize, pageSize, margins, autoRotate,
                   frame, nItems, i, questions, answers, obj, cards,
                   i1, i2, cardGroups, k, j, g, coords, sink, err, plain>>

NextFit == CallPlain \/ CallRotate

SpecFit == InitFit /\ [][NextFit]_vars

(* -------------------- properties of the grid fitter -------------------- *)

\* q is the quotient a/b rounded toward minus infinity (b > 0)
IsFloor(q, a, b) == q * b <= a /\ a < (q + 1) * b

\* q is the quotient a/b rounded toward zero (b > 0)
IsTrunc(q, a, b) ==
    IF a >= 0 THEN q * b <= a /\ a < (q + 1) * b
              ELSE a <= q * b /\ (q - 1) * b < a

Quotients == (0 - MaxDim - 2 * MaxMargin)..(MaxDim + 2 * MaxMargin)

C8_RotationNeverReducesYield ==
    (plain.called /\ rotated.called) =>
        rotated.numCardsX * rotated.numCardsY
            >= plain.numCardsX * plain.numCardsY

\* both calls made, the page was turned and the yield grew
C8_Witness ==
    /\ plain.called
    /\ rotated.called
    /\ rotated.pageSize # pageSize
    /\ rotated.numCardsX * rotated.numCardsY
           > plain.numCardsX * plain.numCardsY

(* ------------------------- the card pipeline --------------------------- *)

fitVars == <<plain, rotated>>
inputVars == <<cardsFrom, cardSize, margins, autoRotate, frame, nItems>>
genVars == <<i, questions, answers>>

PageSizes == {A3, A4, A5, A6,
              landscape(A3), landscape(A4), landscape(A5), landscape(A6)}

\* (9.1 * cm, 5.9 * cm) of make_cards_file, and the same card upright
CardSizes == {<<91 * mm, 59 * mm>>, <<59 * mm, 91 * mm>>}

\* layout(path, cards, pageSize, cardSize, autoRotate, frame) is called with
\* the faces make_cards_platypus yields for a cover and nItems items (as
\* make_cards_file does, with landscape(A4), autoRotate=True, frame=True),
\* or with an empty list of cards.
Init ==
    /\ cardsFrom \in {"make_cards_platypus", "empty"}
    /\ nItems \in 0..MaxItems
    /\ cardsFrom = "empty" => nItems = 0
    /\ pc = IF cardsFrom = "empty" THEN "layout" ELSE "gen"
    /\ cardSize \in CardSizes
    /\ pageSize \in PageSizes
    /\ margins = nppm
    /\ autoRotate \in BOOLEAN
    /\ frame \in BOOLEAN
    /\ i = 0
    /\ questions = Cover
    /\ answers = <<>>
    /\ obj = <<>>
    /\ cards = <<>>
    /\ i1 = 0
    /\ i2 = 0
    /\ cardGroups = <<>>
    /\ k = 0
    /\ j = 0
    /\ g = 0
    /\ coords = <<>>
    /\ sink = <<>>
    /\ err = ""
    /\ plain = NoResult
    /\ rotated = NoResult

\* make_cards_platypus, one turn of "for i, item in enumerate(items)": the
\* pair built so far is yielded and make_cards_file appends it to cards
GenYield ==
    /\ pc = "gen"
    /\ i < nItems
    /\ obj' = obj \o <<QuizCard(questions, cardSize[1], cardSize[2]),
                       QuizCard(answers, cardSize[1], cardSize[2])>>
    /\ cards' = cards \o <<Len(obj) + 1, Len(obj) + 2>>
    /\ questions' = QuestionBlock(i)
    /\ answers' = AnswerBlock(i)
    /\ i' = i + 1
    /\ UNCHANGED <<pc, pageSize, i1, i2, cardGroups, k, j, g, coords,
                   sink, err>>
    /\ UNCHANGED <<inputVars, fitVars>>

\* make_cards_platypus after the loop: the last pair is yielded and appended,
\* and make_cards_file calls layout
GenLast ==
    /\ pc = "gen"
    /\ i = nItems
    /\ obj' = obj \o <<QuizCard(questions, cardSize[1], cardSize[2]),
                       QuizCard(answers, cardSize[1], cardSize[2])>>
    /\ cards' = cards \o <<Len(obj) + 1, Len(obj) + 2>>
    /\ pc' = "layout"
    /\ UNCHANGED <<pageSize, i1, i2, cardGroups, k, j, g, coords, sink, err>>
    /\ UNCHANGED <<inputVars, genVars, fitVars>>

\* layout, up to the regrouping loop: the grid is fitted with nppm, the
\* page size is rebound to the returned one and the canvas is opened
LayoutBegin ==
    /\ pc = "layout"
    /\ LET r == maximize_cards_on_page(cardSize, pageSize, margins, autoRotate)
       IN  /\ pageSize' = r.pageSize
           /\ i1' = r.numCardsX
           /\ i2' = r.numCardsY
    /\ cardGroups' = <<>>
    /\ k' = 0
    /\ j' = 0
    /\ pc' = "group"
    /\ UNCHANGED <<obj, cards, g, coords, sink, err>>
    /\ UNCHANGED <<inputVars, genVars, fitVars>>

Abs(n) == IF n < 0 THEN 0 - n ELSE n

\* faulty variant of SuperChunk: a super-chunk of one face per cell
SuperChunkSlip(cols, rows) == cols * rows

\* 2 * i1 * i2, the number of faces of one sheet of paper
SuperChunk(cols, rows) == 2 * cols * rows

\* layout, one turn of "for j, card in enumerate(cards)"
GroupStep ==
    /\ pc = "group"
    /\ j < Len(cards)
    /\ IF j > 0 /\ SuperChunk(i1, i2) = 0
       THEN \* j % 0
            /\ pc' = "error"
            /\ err' = "ZeroDivisionError"
            /\ UNCHANGED <<cardGroups, k, j>>
       ELSE /\ IF j > 0 /\ j % Abs(SuperChunk(i1, i2)) = 0
               THEN /\ cardGroups' = cardGroups \o
                                     <<Slice2(cards, k, j),
                                       Slice2(cards, k + 1, j + 1)>>
                    /\ k' = j
               ELSE UNCHANGED <<cardGroups, k>>
            /\ j' = j + 1
            /\ UNCHANGED <<pc, err>>
    /\ UNCHANGED <<pageSize, obj, cards, i1, i2, g, coords, sink>>
    /\ UNCHANGED <<inputVars, genVars, fitVars>>

\* layout, after the regrouping loop: the rest of the cards makes the last
\* two groups
GroupEnd ==
    /\ pc = "group"
    /\ j = Len(cards)
    /\ cardGroups' = cardGroups \o <<Slice2(cards, k, Len(cards)),
                                     Slice2(cards, k + 1, Len(cards))>>
    /\ g' = 0
    /\ pc' = "place"
    /\ UNCHANGED <<pageSize, obj, cards, i1, i2, k, j, coords, sink, err>>
    /\ UNCHANGED <<inputVars, genVars, fitVars>>

\* faulty variant of Coords: the back pass laid out like the front pass
CoordsSlip(grp, cols, rows, page, card) ==
    Comprehension(reverse_seq(range(rows)), range(cols),
                  page[1] - cols * card[1], page[2] - rows * card[2],
                  card[1], card[2])

\* the coords list of group grp (doubled): rows from the top one down,
\* columns left to right on a front pass and right to left on a back pass
Coords(grp, cols, rows, page, card) ==
    Comprehension(reverse_seq(range(rows)),
                  IF grp % 2 = 0 THEN range(cols)
                                 ELSE reverse_seq(range(cols)),
                  page[1] - cols * card[1], page[2] - rows * card[2],
                  card[1], card[2])

\* layout, the head of one turn of "for g, cardGroup in enumerate(cardGroups)"
PlaceBegin ==
    /\ pc = "place"
    /\ g < Len(cardGroups)
    /\ coords' = Coords(g, i1, i2, pageSize, cardSize)
    /\ j' = 0
    /\ pc' = "render"
    /\ UNCHANGED <<pageSize, obj, cards, i1, i2, cardGroups, k, g, sink, err>>
    /\ UNCHANGED <<inputVars, genVars, fitVars>>

Event(op, face, x, y, lm, rm) ==
    [op |-> op, g |-> g, j |-> j, face |-> face,
     x |-> x, y |-> y, lm |-> lm, rm |-> rm]

\* hasattr(obj, "lm"): the class attribute Card.lm is always found
HasLm(o) == TRUE

\* "obj.rm = obj.lm; delattr(obj, 'lm')" on a back pass
SwapMargins(o) ==
    IF HasLm(o) THEN [o EXCEPT !.rm = GetLm(o), !.lm = NoAttr] ELSE o

\* layout, one turn of "while j < len(cardGroup)"
RenderCard ==
    /\ pc = "render"
    /\ j < Len(cardGroups[g + 1])
    /\ LET face == cardGroups[g + 1][j + 1]
           back == g % 2 # 0
           \* delattr raises when the instance has no attribute lm
           noLm == back /\ HasLm(obj[face]) /\ obj[face].lm = NoAttr
           o == IF back THEN SwapMargins(obj[face]) ELSE obj[face]
           cap == i1 * i2
       IN  /\ obj' = [obj EXCEPT ![face] = o]
           /\ IF noLm \/ cap = 0 \/ Len(coords) = 0
              THEN /\ pc' = "error"
                   /\ err' = IF noLm THEN "AttributeError"
                             ELSE IF cap = 0 THEN "ZeroDivisionError"
                             ELSE "IndexError"
                   /\ UNCHANGED <<j, sink>>
              ELSE LET xy == coords[(j % cap) + 1]
                       label == IF j % cap = 0
                                THEN <<Event("label", 0, xy[1], xy[2], 0, 0)>>
                                ELSE <<>>
                   IN  /\ sink' = sink \o label \o
                                  <<Event("render", face, xy[1], xy[2],
                                          GetLm(o), GetRm(o))>>
                       /\ j' = j + 1
                       /\ UNCHANGED <<pc, err>>
    /\ UNCHANGED <<pageSize, cards, i1, i2, cardGroups, k, g, coords>>
    /\ UNCHANGED <<inputVars, genVars, fitVars>>

\* layout, the end of one turn of the group loop: the page frame, showPage
ShowPage ==
    /\ pc = "render"
    /\ j = Len(cardGroups[g + 1])
    /\ sink' = sink \o
               (IF frame THEN <<Event("rect", 0, 0, 0, 0, 0)>> ELSE <<>>) \o
               <<Event("showPage", 0, 0, 0, 0, 0)>>
    /\ g' = g + 1
    /\ pc' = "place"
    /\ UNCHANGED <<pageSize, obj, cards, i1, i2, cardGroups, k, j, coords, err>>
    /\ UNCHANGED <<inputVars, genVars, fitVars>>

\* faulty variant of AllPagesDone: the document saved after the first page
AllPagesDoneSlip == g >= 1

\* the group loop is exhausted
AllPagesDone == g = Len(cardGroups)

\* layout, canv.save()
Save ==
    /\ pc = "place"
    /\ AllPagesDone
    /\ sink' = Append(sink, Event("save", 0, 0, 0, 0, 0))
    /\ pc' = "done"
    /\ UNCHANGED <<pageSize, obj, cards, i1, i2, cardGroups, k, j, g, coords,
                   err>>
    /\ UNCHANGED <<inputVars, genVars, fitVars>>

Next ==
    \/ GenYield
    \/ GenLast
    \/ LayoutBegin
    \/ GroupStep
    \/ GroupEnd
    \/ PlaceBegin
    \/ RenderCard
    \/ ShowPage
    \/ Save

Spec == Init /\ [][Next]_vars

(* ---------------------- properties of the pipeline --------------------- *)

\* C7: make_cards_platypus yields nItems+1 pairs in document order: pair 0
\* is (cover, empty) and pair n is (question of item n-1, answer of item
\* n-1 labelled n), so the face list has the even length 2*(nItems+1).
C7_DeckPairs ==
    (cardsFrom = "make_cards_platypus" /\ pc # "gen") =>
        /\ Len(cards) = 2 * (nItems + 1)
        /\ \A a, b \in DOMAIN cards : a # b => cards[a] # cards[b]
        /\ obj[cards[1]].text = <<[kind |-> "cover", n |-> 0]>>
        /\ obj[cards[2]].text = <<>>
        /\ \A n \in 1..nItems :
              /\ obj[cards[2 * n + 1]].text =
                    <<[kind |-> "QuestionLabel", n |-> 0],
                      [kind |-> "q", n |-> n - 1]>>
              /\ obj[cards[2 * n + 2]].text =
                    <<[kind |-> "AnswerLabel", n |-> n],
                      [kind |-> "a", n |-> n - 1]>>

\* the deck of a document with at least two items has been built
C7_Witness ==
    /\ cardsFrom = "make_cards_platypus"
    /\ pc = "layout"
    /\ nItems >= 2
    /\ Len(cards) = 2 * (nItems + 1)

\* C1: for an even number >= 2 of faces and a grid of cols*rows >= 1 cells
\* the groups come in pairs 2k, 2k+1 of equal length whose faces at the same
\* position are the front and the back of one original pair.
C1_PairedGroups ==
    (Len(cards) >= 2 /\ Len(cards) % 2 = 0 /\ i1 * i2 >= 1) =>
        /\ Len(cardGroups) % 2 = 0
        /\ \A h \in 1..(Len(cardGroups) \div 2) :
              /\ Len(cardGroups[2 * h - 1]) = Len(cardGroups[2 * h])
              /\ \A n \in 1..Len(cardGroups[2 * h - 1]) :
                    \E q \in 1..(Len(cards) \div 2) :
                        /\ cardGroups[2 * h - 1][n] = cards[2 * q - 1]
                        /\ cardGroups[2 * h][n] = cards[2 * q]

\* the regrouping is finished, there are several sheets and the last sheet
\* is not full
C1_Witness ==
    /\ pc = "place"
    /\ Len(cards) % 2 = 0
    /\ i1 * i2 >= 2
    /\ Len(cardGroups) >= 4
    /\ Len(cardGroups[Len(cardGroups)]) >= 1
    /\ Len(cardGroups[Len(cardGroups)]) < i1 * i2

\* the positions of the sink at which a face is drawn
Renders == {p \in DOMAIN sink : sink[p].op = "render"}

\* C2: the back face at position n of a sheet is placed in the grid row of
\* the front face at position n and in column cols-1-c, c the column of the
\* front face (x = x0 + c*cw, here doubled).
C2_BackMirrorsFront ==
    \A a, b \in Renders :
        (sink[a].g % 2 = 0 /\ sink[b].g = sink[a].g + 1
            /\ sink[b].j = sink[a].j) =>
            /\ sink[b].y = sink[a].y
            /\ sink[b].x - (pageSize[1] - i1 * cardSize[1])
                  = 2 * (i1 - 1) * cardSize[1]
                    - (sink[a].x - (pageSize[1] - i1 * cardSize[1]))

\* a back face of a sheet that is not full has been drawn on a grid of
\* several columns, away from the column of its front
C2_Witness ==
    \E a, b \in Renders :
        /\ sink[a].g % 2 = 0
        /\ sink[b].g = sink[a].g + 1
        /\ sink[b].j = sink[a].j
        /\ sink[b].x # sink[a].x
        /\ i1 >= 2
        /\ Len(cardGroups[sink[b].g + 1]) < i1 * i2

\* C4: the grid maximize_cards_on_page returns fits the page it returns:
\* cols*cardWidth <= page width - lm - rm and rows*cardHeight <= page
\* height - tm - bm.
C4_GridFitsReturnedPage ==
    pc \notin {"gen", "layout"} =>
        /\ i1 * cardSize[1] <= pageSize[1] - margins.lm - margins.rm
        /\ i2 * cardSize[2] <= pageSize[2] - margins.tm - margins.bm

\* C5: when the computed cols or rows is <= 0 the grid fitter fails with
\* InvalidGeometry instead of returning, and layout passes the error on
\* without emitting a page.
C5_InvalidGeometryRaised ==
    (pc \notin {"gen", "layout"} /\ (i1 <= 0 \/ i2 <= 0)) =>
        /\ pc = "error"
        /\ err = "InvalidGeometry"
        /\ sink = <<>>

\* C6: for an empty face sequence layout makes no sheet group, finalizes no
\* page and raises no error.
C6_EmptyDeckNoGroups ==
    cards = <<>> =>
        /\ pc # "error"
        /\ cardGroups = <<>>
        /\ \A p \in DOMAIN sink : sink[p].op # "showPage"

\* C9: a face drawn on a back pass has its left and right margins swapped
\* relative to the values it was built with; a face drawn on a front pass
\* keeps them.
C9_BackMarginsSwapped ==
    \A p \in Renders :
        IF sink[p].g % 2 # 0
        THEN sink[p].lm = KwRm /\ sink[p].rm = KwLm
        ELSE sink[p].lm = KwLm /\ sink[p].rm = KwRm

\* the faces of group grp drawn before position p of the sink, in order
RendersBefore(p, grp) ==
    LET T(e) == e.op = "render" /\ e.g = grp
        sel == SelectSeq(SubSeq(sink, 1, p - 1), T)
    IN  [n \in 1..Len(sel) |-> sel[n].face]

\* C10: the sink receives its events in group order: the faces of group g
\* are drawn once each and in group order before the page of g is
\* finalized, each group is finalized once, nothing of a later group comes
\* before that, and the document is saved after the last page only.
C10_SinkInGroupOrder ==
    /\ \A p, q \in DOMAIN sink : p < q => sink[p].g <= sink[q].g
    /\ \A p \in DOMAIN sink :
          /\ sink[p].op = "render" =>
                /\ sink[p].g < Len(cardGroups)
                /\ LET r == RendersBefore(p + 1, sink[p].g)
                   IN  /\ Len(r) <= Len(cardGroups[sink[p].g + 1])
                       /\ r = SubSeq(cardGroups[sink[p].g + 1], 1, Len(r))
          /\ sink[p].op = "showPage" =>
                /\ sink[p].g < Len(cardGroups)
                /\ RendersBefore(p, sink[p].g) = cardGroups[sink[p].g + 1]
                /\ \A q \in DOMAIN sink : q > p => sink[q].g > sink[p].g
          /\ sink[p].op = "save" =>
                /\ p = Len(sink)
                /\ \A grp \in 0..(Len(cardGroups) - 1) :
                      \E q \in 1..(p - 1) :
                          sink[q].op = "showPage" /\ sink[q].g = grp
    /\ pc = "done" =>
          /\ sink # <<>>
          /\ sink[Len(sink)].op = "save"
          /\ Cardinality({p \in DOMAIN sink : sink[p].op = "showPage"})
                = Len(cardGroups)

\* a document of several sheets has been drawn and saved
C10_Witness ==
    /\ pc = "done"
    /\ Len(cardGroups) >= 4
    /\ Cardinality(Renders) = Len(cards)
    /\ Len(cards) >= 4

====
